---- MODULE Spec2Model ----
(***************************************************************************)
(* Model of the two TV package exporters of expo-multi-tv:                 *)
(*   scripts/export-tizen.js  (Samsung, staging directory tizen-build)     *)
(*   scripts/export-webos.js  (LG, staging directory webos-build)          *)
(* The file system is a function from paths (sequences of names, relative  *)
(* to the application directory) to nodes.  A file's content is a          *)
(* sequence of tokens; the tokens of an HTML entry file are pieces of its  *)
(* text, so that the regular-expression rewrite acts on them exactly as on *)
(* the characters they stand for.                                          *)
(***************************************************************************)
EXTENDS Naturals, Integers, Sequences, FiniteSets, TLC

VARIABLES
    fs,         \* the file system under the application directory
    exporter,   \* which script is run: "tizen" or "webos"
    pc,         \* where the process is: idle, load, copy, ..., exited
    version,    \* TIZEN_CONFIG.version / WEBOS_CONFIG.version
    log,        \* what the run has printed and the commands it has run
    exitCode,   \* the process's exit status, Running while there is none
    fault,      \* whether the environment made an fs call of this run fail
    before      \* the staging directory as the run found it

vars == <<fs, exporter, pc, version, log, exitCode, fault, before>>

\* Longest entry-file text (in tokens) drawn by the rewrite specification.
MaxLen == 6

----------------------------------------------------------------------------
(* Nodes and paths *)

DirNode == [kind |-> "dir", data |-> <<>>]

FileNode(data) == [kind |-> "file", data |-> data]

EmptyFs == [q \in {} |-> DirNode]

Last(p) == p[Len(p)]

IsPrefix(p, q) == Len(p) <= Len(q) /\ SubSeq(q, 1, Len(p)) = p

DIST_DIR == <<"dist">>

TIZEN_DIR == <<"tizen-build">>

WEBOS_DIR == <<"webos-build">>

iconsDir == <<"assets", "images">>

Exporters == {"tizen", "webos"}

StagingDir(e) == IF e = "tizen" THEN TIZEN_DIR ELSE WEBOS_DIR

TIZEN_CONFIG ==
    [packageId |-> "MultiTVExpoApp", appId |-> "multitv.expoapp",
     name |-> "Multi-TV App", icon |-> "icon.png", content |-> "index.html"]

WEBOS_CONFIG ==
    [id |-> "com.multitv.expoapp", vendor |-> "Multi-TV", type |-> "web",
     main |-> "index.html", title |-> "Multi-TV App", icon |-> "icon-80.png",
     largeIcon |-> "icon-130.png", bgImage |-> "splash.png",
     resolution |-> "1920x1080", disableBackHistoryAPI |-> TRUE,
     handlesRelaunch |-> TRUE]

----------------------------------------------------------------------------
(* The fs calls the scripts make *)

existsSync(f, p) == p \in DOMAIN f

\* fs.rmSync(p, {recursive: true, force: true})
rmSync(f, p) == [q \in {r \in DOMAIN f : ~IsPrefix(p, r)} |-> f[q]]

\* fs.mkdirSync(p, {recursive: true}): missing ancestors are created too
mkdirSync(f, p) ==
    LET new == {SubSeq(p, 1, k) : k \in 1..Len(p)} \ DOMAIN f
    IN  [q \in DOMAIN f \cup new |-> IF q \in DOMAIN f THEN f[q] ELSE DirNode]

\* fs.readdirSync(p, {withFileTypes: true}): the entries, as their paths
readdirSync(f, p) == {q \in DOMAIN f : Len(q) = Len(p) + 1 /\ IsPrefix(p, q)}

copyFileSync(f, src, dest) ==
    [q \in DOMAIN f \cup {dest} |-> IF q = dest THEN f[src] ELSE f[q]]

writeFileSync(f, p, data) ==
    [q \in DOMAIN f \cup {p} |-> IF q = p THEN FileNode(data) ELSE f[q]]

RECURSIVE copyDirectory(_, _, _)
RECURSIVE copyEntries(_, _, _)
RECURSIVE copyEntriesFlat(_, _, _)

\* copyEntries with the recursive call lost: a subdirectory is made, not filled
copyEntriesFlat(f, dest, entries) ==
    IF entries = {} THEN f
    ELSE LET entry == CHOOSE e \in entries : TRUE
             destPath == Append(dest, Last(entry))
             g == IF f[entry].kind = "dir"
                  THEN mkdirSync(f, destPath)
                  ELSE copyFileSync(f, entry, destPath)
         IN  copyEntriesFlat(g, dest, entries \ {entry})

\* the for loop of copyDirectory over the entries read before it
copyEntries(f, dest, entries) ==
    IF entries = {} THEN f
    ELSE LET entry == CHOOSE e \in entries : TRUE
             destPath == Append(dest, Last(entry))
             g == IF f[entry].kind = "dir"
                  THEN copyDirectory(f, entry, destPath)
                  ELSE copyFileSync(f, entry, destPath)
         IN  copyEntries(g, dest, entries \ {entry})

copyDirectory(f, src, dest) ==
    copyEntries(mkdirSync(f, dest), dest, readdirSync(f, src))

----------------------------------------------------------------------------
(* The entry-file rewrite.  A text is a sequence of tokens, each standing  *)
(* for the characters it spells; only Q holds a double quote, only "/" and *)
(* "_expo/" hold a slash, and no token's spelling overlaps another's.      *)

Q == "\""

Attrs == {"src=", "href="}

Tokens == Attrs \cup {Q, "/", "_expo/", "a"}

RECURSIVE replaceExpoPrefix(_, _)
RECURSIVE replaceExpoPrefixDrop(_, _)

\* replaceExpoPrefix with the replacement string cut short: 'attr"'
replaceExpoPrefixDrop(t, attr) ==
    IF t = <<>> THEN <<>>
    ELSE IF Len(t) >= 4 /\ SubSeq(t, 1, 4) = <<attr, Q, "/", "_expo/">>
         THEN <<attr, Q>> \o replaceExpoPrefixDrop(SubSeq(t, 5, Len(t)), attr)
         ELSE <<Head(t)>> \o replaceExpoPrefixDrop(Tail(t), attr)

\* text.replace(/attr"\/_expo\//g, 'attr"_expo/')
replaceExpoPrefix(t, attr) ==
    IF t = <<>> THEN <<>>
    ELSE IF Len(t) >= 4 /\ SubSeq(t, 1, 4) = <<attr, Q, "/", "_expo/">>
         THEN <<attr, Q, "_expo/">> \o replaceExpoPrefix(SubSeq(t, 5, Len(t)), attr)
         ELSE <<Head(t)>> \o replaceExpoPrefix(Tail(t), attr)

\* the position of the first double quote of t at or after i; 0 when none
FirstQuote(t, i) ==
    IF \E k \in i..Len(t) : t[k] = Q
    THEN CHOOSE k \in i..Len(t) : t[k] = Q /\ \A j \in i..(k - 1) : t[j] # Q
    ELSE 0

RECURSIVE replaceLeadingSlash(_, _)

\* text.replace(/attr"\/([^"]+)"/g, 'attr"$1"')
replaceLeadingSlash(t, attr) ==
    IF t = <<>> THEN <<>>
    ELSE LET k == FirstQuote(t, 4)
         IN  IF Len(t) >= 5 /\ SubSeq(t, 1, 3) = <<attr, Q, "/">> /\ k >= 5
             THEN <<attr, Q>> \o SubSeq(t, 4, k)
                      \o replaceLeadingSlash(SubSeq(t, k + 1, Len(t)), attr)
             ELSE <<Head(t)>> \o replaceLeadingSlash(Tail(t), attr)

\* the two prefix passes of fixIndexHtmlPaths
expoPass(t) == replaceExpoPrefix(replaceExpoPrefix(t, "src="), "href=")

\* the two generic passes of fixIndexHtmlPaths
slashPass(t) == replaceLeadingSlash(replaceLeadingSlash(t, "src="), "href=")

\* the four replace calls of fixIndexHtmlPaths, in the script's order
rewritePaths(t) == slashPass(expoPass(t))

----------------------------------------------------------------------------
(* What the scripts print, and the commands they run ("$ ...") *)

IsTizen(e) == e = "tizen"

ErrPackageJson == "Error reading package.json"

ErrNoDist == "Error: dist directory not found. Please run \"npx expo export --platform web\" first."

CopiedMsg(e) ==
    IF IsTizen(e) THEN "Copied dist files to Tizen build directory"
    ELSE "Copied dist files to webOS build directory"

WarnNoIndex == "index.html not found, skipping path fixes"

FixedMsg == "Fixed paths in index.html to use relative URLs (no leading slash)"

DescriptorMsg(e) == IF IsTizen(e) THEN "Created config.xml" ELSE "Created appinfo.json"

ProbeCmd(e) == IF IsTizen(e) THEN "$ which tizen" ELSE "$ which ares-package"

PackagingMsg(e) == IF IsTizen(e) THEN "Creating WGT package..." ELSE "Creating IPK package..."

PackageCmd(e) ==
    IF IsTizen(e) THEN "$ tizen package -t wgt -s MultiTVExpoApp -o ../ -- tizen-build"
    ELSE "$ ares-package webos-build -o ../ --no-minify"

PackagedMsg(e) ==
    IF IsTizen(e) THEN "WGT package created successfully"
    ELSE "IPK package created successfully"

WarnNoCli(e) ==
    IF IsTizen(e) THEN "tizen CLI not found. To create a WGT package:"
    ELSE "ares-package not found. To create an IPK package:"

CompleteMsg(e) == IF IsTizen(e) THEN "Tizen Build Complete!" ELSE "webOS Build Complete!"

ErrDuringExport(e) ==
    IF IsTizen(e) THEN "Error during Tizen export:" ELSE "Error during webOS export:"

----------------------------------------------------------------------------
(* The steps.  Each takes the file system and returns the file system it   *)
(* leaves, what it printed, and how it ended: "ok" (it returned), "exit"   *)
(* (it called process.exit(1)) or "throw" (an fs call threw).  failAt      *)
(* names the fs call the environment makes fail, "none" for none.          *)

Result(f, out, status) == [fs |-> f, out |-> out, status |-> status]

\* packageJson.version || '1.0.0'
VersionOf(pkg) == IF pkg = "" THEN "1.0.0" ELSE pkg

\* copyDistFiles making the staging directory before it looks for dist
copyDistFilesEager(f, e, failAt) ==
    LET staging == StagingDir(e)
        removed == IF existsSync(f, staging) THEN rmSync(f, staging) ELSE f
        made == mkdirSync(removed, staging)
    IN  IF ~existsSync(f, DIST_DIR) THEN Result(made, <<ErrNoDist>>, "exit")
        ELSE IF failAt = "rmSync" THEN Result(f, <<>>, "throw")
        ELSE IF failAt = "mkdirSync" THEN Result(removed, <<>>, "throw")
        ELSE IF failAt = "readdirSync" \/ f[DIST_DIR].kind # "dir"
             THEN Result(made, <<>>, "throw")
        ELSE Result(copyDirectory(made, DIST_DIR, staging), <<CopiedMsg(e)>>, "ok")

\* copyDistFiles without the rmSync of an existing staging directory
copyDistFilesKeep(f, e, failAt) ==
    LET staging == StagingDir(e)
        made == mkdirSync(f, staging)
    IN  IF ~existsSync(f, DIST_DIR) THEN Result(f, <<ErrNoDist>>, "exit")
        ELSE IF failAt \in {"rmSync", "mkdirSync"} THEN Result(f, <<>>, "throw")
        ELSE IF failAt = "readdirSync" \/ f[DIST_DIR].kind # "dir"
             THEN Result(made, <<>>, "throw")
        ELSE Result(copyDirectory(made, DIST_DIR, staging), <<CopiedMsg(e)>>, "ok")

copyDistFiles(f, e, failAt) ==
    LET staging == StagingDir(e)
        removed == IF existsSync(f, staging) THEN rmSync(f, staging) ELSE f
        made == mkdirSync(removed, staging)
    IN  IF ~existsSync(f, DIST_DIR) THEN Result(f, <<ErrNoDist>>, "exit")
        ELSE IF failAt = "rmSync" THEN Result(f, <<>>, "throw")
        ELSE IF failAt = "mkdirSync" THEN Result(removed, <<>>, "throw")
        ELSE IF failAt = "readdirSync" \/ f[DIST_DIR].kind # "dir"
             THEN Result(made, <<>>, "throw")
        ELSE Result(copyDirectory(made, DIST_DIR, staging), <<CopiedMsg(e)>>, "ok")

\* the fs calls of copyDistFiles that can be made to fail in file system f
copyFailPoints(f, e) ==
    IF ~existsSync(f, DIST_DIR) THEN {"none"}
    ELSE {"none", "mkdirSync", "readdirSync"}
             \cup (IF existsSync(f, StagingDir(e)) THEN {"rmSync"} ELSE {})

\* fixIndexHtmlPaths with indexPath taken from DIST_DIR: dist's entry file
\* is rewritten in place
fixIndexHtmlPathsInDist(f, e, failAt) ==
    LET indexPath == Append(DIST_DIR, "index.html")
    IN  IF ~existsSync(f, indexPath) THEN Result(f, <<WarnNoIndex>>, "ok")
        ELSE IF failAt = "readFileSync" \/ f[indexPath].kind # "file"
             THEN Result(f, <<>>, "throw")
        ELSE IF failAt = "writeFileSync" THEN Result(f, <<>>, "throw")
        ELSE Result(writeFileSync(f, indexPath, rewritePaths(f[indexPath].data)),
                    <<FixedMsg>>, "ok")

fixIndexHtmlPaths(f, e, failAt) ==
    LET indexPath == Append(StagingDir(e), "index.html")
    IN  IF ~existsSync(f, indexPath) THEN Result(f, <<WarnNoIndex>>, "ok")
        ELSE IF failAt = "readFileSync" \/ f[indexPath].kind # "file"
             THEN Result(f, <<>>, "throw")
        ELSE IF failAt = "writeFileSync" THEN Result(f, <<>>, "throw")
        ELSE Result(writeFileSync(f, indexPath, rewritePaths(f[indexPath].data)),
                    <<FixedMsg>>, "ok")

fixFailPoints(f, e) ==
    IF existsSync(f, Append(StagingDir(e), "index.html"))
    THEN {"none", "readFileSync", "writeFileSync"} ELSE {"none"}

\* the text of config.xml, by the fields the template fills in
configXml(v) ==
    <<"widget", TIZEN_CONFIG.packageId, v, TIZEN_CONFIG.appId, TIZEN_CONFIG.content,
      TIZEN_CONFIG.icon, TIZEN_CONFIG.name>>

\* JSON.stringify(appInfo, null, 2), by its fields
appInfoJson(v) ==
    <<"appinfo", WEBOS_CONFIG.id, v, WEBOS_CONFIG.vendor, WEBOS_CONFIG.type,
      WEBOS_CONFIG.main, WEBOS_CONFIG.title, WEBOS_CONFIG.icon, WEBOS_CONFIG.largeIcon,
      WEBOS_CONFIG.bgImage, WEBOS_CONFIG.resolution>>

DescriptorName(e) == IF IsTizen(e) THEN "config.xml" ELSE "appinfo.json"

DescriptorText(e, v) == IF IsTizen(e) THEN configXml(v) ELSE appInfoJson(v)

createConfigXml(f, v, failAt) ==
    LET configPath == Append(TIZEN_DIR, "config.xml")
    IN  IF failAt = "writeFileSync" \/ (existsSync(f, configPath) /\ f[configPath].kind # "file")
        THEN Result(f, <<>>, "throw")
        ELSE Result(writeFileSync(f, configPath, configXml(v)), <<DescriptorMsg("tizen")>>, "ok")

createAppInfo(f, v, failAt) ==
    LET appInfoPath == Append(WEBOS_DIR, "appinfo.json")
    IN  IF failAt = "writeFileSync" \/ (existsSync(f, appInfoPath) /\ f[appInfoPath].kind # "file")
        THEN Result(f, <<>>, "throw")
        ELSE Result(writeFileSync(f, appInfoPath, appInfoJson(v)), <<DescriptorMsg("webos")>>, "ok")

\* the icon and splash sources each exporter looks for, in the script's order
IconSpecs(e) ==
    IF IsTizen(e)
    THEN << [src |-> "icon-512.png", dest |-> TIZEN_CONFIG.icon,
             copied |-> "Copied 512x512 icon",
             warn |-> <<"No 512x512 icon found. You need to add:",
                        "  - assets/images/icon-512.png (512x512 PNG)">>] >>
    ELSE << [src |-> "icon-80.png", dest |-> WEBOS_CONFIG.icon,
             copied |-> "Copied 80x80 icon",
             warn |-> <<"No 80x80 icon found. You need to add:",
                        "  - assets/images/icon-80.png (80x80 PNG)">>],
            [src |-> "icon-130.png", dest |-> WEBOS_CONFIG.largeIcon,
             copied |-> "Copied 130x130 icon",
             warn |-> <<"No 130x130 icon found. You need to add:",
                        "  - assets/images/icon-130.png (130x130 PNG)">>],
            [src |-> "splash-1920x1080.png", dest |-> WEBOS_CONFIG.bgImage,
             copied |-> "Copied splash image",
             warn |-> <<"No splash image found. You may want to add:",
                        "  - assets/images/splash-1920x1080.png (1920x1080 PNG)">>] >>

RECURSIVE handleIconsFrom(_, _, _, _, _)

\* the if/else blocks of handleIcons from the i-th on; failAt is the block
\* whose copyFileSync fails, 0 for none
handleIconsFrom(f, e, i, failAt, out) ==
    IF i > Len(IconSpecs(e)) THEN Result(f, out, "ok")
    ELSE LET icon == IconSpecs(e)[i]
             placeholder == Append(iconsDir, icon.src)
             iconPath == Append(StagingDir(e), icon.dest)
         IN  IF existsSync(f, placeholder)
             THEN IF failAt = i \/ (existsSync(f, iconPath) /\ f[iconPath].kind # "file")
                  THEN Result(f, out, "throw")
                  ELSE handleIconsFrom(copyFileSync(f, placeholder, iconPath), e, i + 1,
                                       failAt, Append(out, icon.copied))
             ELSE handleIconsFrom(f, e, i + 1, failAt, out \o icon.warn)

\* handleIcons catching the error of a failed copy itself
handleIconsSwallow(f, e, failAt) ==
    [handleIconsFrom(f, e, 1, failAt, <<>>) EXCEPT !.status = "ok"]

\* handleIcons writing a placeholder file for the first source it misses
handleIconsPlaceholder(f, e, failAt) ==
    LET r == handleIconsFrom(f, e, 1, failAt, <<>>)
        iconPath == Append(StagingDir(e), IconSpecs(e)[1].dest)
    IN  IF existsSync(f, Append(iconsDir, IconSpecs(e)[1].src)) THEN r
        ELSE [r EXCEPT !.fs = writeFileSync(r.fs, iconPath, <<"placeholder">>)]

\* handleIcons with the later blocks nested in the first one's if branch
handleIconsNested(f, e, failAt) ==
    IF existsSync(f, Append(iconsDir, IconSpecs(e)[1].src))
    THEN handleIconsFrom(f, e, 1, failAt, <<>>)
    ELSE Result(f, IconSpecs(e)[1].warn, "ok")

handleIcons(f, e, failAt) == handleIconsFrom(f, e, 1, failAt, <<>>)

iconFailPoints(f, e) ==
    {0} \cup {i \in 1..Len(IconSpecs(e)) : existsSync(f, Append(iconsDir, IconSpecs(e)[i].src))}

\* What `which <cli>` and the packaging command do: the CLI is not installed,
\* it runs and exits non-zero, or it runs and exits 0.
CliOutcomes == {"absent", "fails", "succeeds"}

\* createPackage whose catch block removes the staging directory
createPackageRollback(f, e, cli) ==
    IF cli = "absent" THEN Result(rmSync(f, StagingDir(e)), <<ProbeCmd(e), WarnNoCli(e)>>, "ok")
    ELSE IF cli = "fails"
         THEN Result(rmSync(f, StagingDir(e)),
                     <<ProbeCmd(e), PackagingMsg(e), PackageCmd(e), WarnNoCli(e)>>, "ok")
    ELSE Result(f, <<ProbeCmd(e), PackagingMsg(e), PackageCmd(e), PackagedMsg(e)>>, "ok")

\* createPackage without the try/catch around the packaging command
createPackageUncaught(f, e, cli) ==
    IF cli = "absent" THEN Result(f, <<ProbeCmd(e), WarnNoCli(e)>>, "ok")
    ELSE IF cli = "fails"
         THEN Result(f, <<ProbeCmd(e), PackagingMsg(e), PackageCmd(e)>>, "throw")
    ELSE Result(f, <<ProbeCmd(e), PackagingMsg(e), PackageCmd(e), PackagedMsg(e)>>, "ok")

\* createWGT / createIPK: the try block and its catch
createPackage(f, e, cli) ==
    IF cli = "absent" THEN Result(f, <<ProbeCmd(e), WarnNoCli(e)>>, "ok")
    ELSE IF cli = "fails"
         THEN Result(f, <<ProbeCmd(e), PackagingMsg(e), PackageCmd(e), WarnNoCli(e)>>, "ok")
    ELSE Result(f, <<ProbeCmd(e), PackagingMsg(e), PackageCmd(e), PackagedMsg(e)>>, "ok")

displayInstructions(f, e) == Result(f, <<CompleteMsg(e)>>, "ok")

----------------------------------------------------------------------------
(* The inputs a run can find on disk *)

\* tree t (relative paths) as the directory at path root
Mount(root, t) ==
    [q \in {root} \cup {root \o r : r \in DOMAIN t} |->
        IF q = root THEN DirNode ELSE t[SubSeq(q, Len(root) + 1, Len(q))]]

\* the tree under directory root of f, by relative paths
Subtree(f, root) ==
    [r \in {SubSeq(q, Len(root) + 1, Len(q)) :
                q \in {x \in DOMAIN f : IsPrefix(root, x) /\ x # root}} |-> f[root \o r]]

Under(f, roots) == [q \in {x \in DOMAIN f : \E r \in roots : IsPrefix(r, x)} |-> f[q]]

\* an entry file as the web export writes it
IndexHtml ==
    <<"src=", Q, "/", "_expo/", "a", Q, "href=", Q, "/", "a", Q>>

\* the trees the web export leaves in dist: empty, the entry file alone, a
\* favicon and an empty nested directory without an entry file, and a full
\* export with nested files and an empty directory
DistTrees ==
    {EmptyFs,
     <<"index.html">> :> FileNode(IndexHtml),
     (<<"icon.png">> :> FileNode(<<"favicon of the web export">>))
         @@ (<<"_expo">> :> DirNode) @@ (<<"_expo", "static">> :> DirNode),
     (<<"index.html">> :> FileNode(IndexHtml))
         @@ (<<"icon.png">> :> FileNode(<<"favicon of the web export">>))
         @@ (<<"_expo">> :> DirNode)
         @@ (<<"_expo", "app.js">> :> FileNode(<<"bundle">>))
         @@ (<<"_expo", "static">> :> DirNode)
         @@ (<<"_expo", "static", "main.css">> :> FileNode(<<"styles">>))
         @@ (<<"_expo", "static", "media">> :> DirNode)}

\* dist is missing, is not a directory, or is a directory tree
DistChoices ==
    {EmptyFs, DIST_DIR :> FileNode(<<"not a directory">>)}
        \cup {Mount(DIST_DIR, t) : t \in DistTrees}

AssetNames(e) == {IconSpecs(e)[i].src : i \in 1..Len(IconSpecs(e))}

\* assets/images with any of the sources the exporter looks for
AssetChoices(e) ==
    {Mount(<<"assets">>, (<<"images">> :> DirNode)
               @@ [q \in {<<"images", n>> : n \in present} |-> FileNode(<<"png", q[2]>>)]) :
         present \in SUBSET AssetNames(e)}

\* what an earlier build may have left in a staging directory
StaleTree ==
    (<<"stale.txt">> :> FileNode(<<"left over">>)) @@ (<<"_expo">> :> DirNode)
        @@ (<<"_expo", "old.js">> :> FileNode(<<"old bundle">>))

StagingChoices(dir) == {EmptyFs, Mount(dir, StaleTree)}

OtherExporter(e) == IF IsTizen(e) THEN "webos" ELSE "tizen"

----------------------------------------------------------------------------
(* main(): the steps in program order.  A behaviour runs one of the two    *)
(* scripts, again and again; the other script's staging directory is there *)
(* from an earlier build of it.                                            *)

Running == -1

\* a step's result as the next state: main goes on to `next`, or its catch
\* block prints the error and exits 1, or the step has exited 1 itself
Proceed(r, next, injected) ==
    /\ fs' = r.fs
    /\ log' = log \o r.out
                  \o (IF r.status = "throw" THEN <<ErrDuringExport(exporter)>> ELSE <<>>)
    /\ pc' = IF r.status = "ok" THEN next ELSE "exited"
    /\ exitCode' = IF r.status = "ok" THEN exitCode ELSE 1
    /\ fault' = (fault \/ injected)
    /\ UNCHANGED <<exporter, version, before>>

\* the top of the script: read package.json, exit 1 when that fails
Load ==
    /\ pc = "load"
    /\ \E pkg \in {"unreadable", "", "2.3.1"} :
          IF pkg = "unreadable"
          THEN /\ log' = Append(log, ErrPackageJson)
               /\ pc' = "exited"
               /\ exitCode' = 1
               /\ fault' = TRUE
               /\ UNCHANGED <<fs, exporter, version, before>>
          ELSE /\ version' = VersionOf(pkg)
               /\ pc' = "copy"
               /\ UNCHANGED <<fs, exporter, log, exitCode, fault, before>>

CopyDistFiles ==
    /\ pc = "copy"
    /\ \E failAt \in copyFailPoints(fs, exporter) :
          Proceed(copyDistFiles(fs, exporter, failAt), "rewrite", failAt # "none")

FixIndexHtmlPaths ==
    /\ pc = "rewrite"
    /\ \E failAt \in fixFailPoints(fs, exporter) :
          Proceed(fixIndexHtmlPaths(fs, exporter, failAt), "descriptor", failAt # "none")

CreateDescriptor ==
    /\ pc = "descriptor"
    /\ \E failAt \in {"none", "writeFileSync"} :
          Proceed(IF IsTizen(exporter) THEN createConfigXml(fs, version, failAt)
                  ELSE createAppInfo(fs, version, failAt),
                  "icons", failAt # "none")

HandleIcons ==
    /\ pc = "icons"
    /\ \E failAt \in iconFailPoints(fs, exporter) :
          Proceed(handleIcons(fs, exporter, failAt), "package", failAt # 0)

CreatePackage ==
    /\ pc = "package"
    /\ \E cli \in CliOutcomes : Proceed(createPackage(fs, exporter, cli), "report", FALSE)

\* the report, after which main returns and the process ends with status 0
DisplayInstructions ==
    /\ pc = "report"
    /\ fs' = displayInstructions(fs, exporter).fs
    /\ log' = log \o displayInstructions(fs, exporter).out
    /\ pc' = "exited"
    /\ exitCode' = 0
    /\ UNCHANGED <<exporter, version, fault, before>>

\* The process has ended: the shell has its exit status and output.
Finish ==
    /\ pc = "exited"
    /\ pc' = "idle"
    /\ version' = ""
    /\ log' = <<>>
    /\ exitCode' = Running
    /\ fault' = FALSE
    /\ before' = EmptyFs
    /\ UNCHANGED <<fs, exporter>>

\* Between runs the operator runs the web export again (or removes its
\* output) and changes the assets.
ChangeInputs ==
    /\ pc = "idle"
    /\ \E d \in DistChoices, a \in AssetChoices(exporter) :
          fs' = Under(fs, {TIZEN_DIR, WEBOS_DIR}) @@ d @@ a
    /\ UNCHANGED <<exporter, pc, version, log, exitCode, fault, before>>

\* The operator starts the exporter again.
Invoke ==
    /\ pc = "idle"
    /\ pc' = "load"
    /\ before' = Under(fs, {StagingDir(exporter)})
    /\ UNCHANGED <<fs, exporter, version, log, exitCode, fault>>

Init ==
    /\ exporter \in Exporters
    /\ \E d \in DistChoices, a \in AssetChoices(exporter),
          own \in StagingChoices(StagingDir(exporter)) :
          fs = d @@ a @@ own @@ Mount(StagingDir(OtherExporter(exporter)), StaleTree)
    /\ pc = "load"
    /\ version = ""
    /\ log = <<>>
    /\ exitCode = Running
    /\ fault = FALSE
    /\ before = Under(fs, {StagingDir(exporter)})

Step ==
    \/ Load
    \/ CopyDistFiles
    \/ FixIndexHtmlPaths
    \/ CreateDescriptor
    \/ HandleIcons
    \/ CreatePackage
    \/ DisplayInstructions

Next == Step \/ Finish \/ ChangeInputs \/ Invoke

Spec == Init /\ [][Next]_vars

----------------------------------------------------------------------------
(* The rewrite alone, on every entry file of up to MaxLen tokens: the run  *)
(* has copied dist, whose index.html keeps the text the rewrite was given. *)

Texts(n) == UNION {[1..k -> Tokens] : k \in 0..n}

RewriteInit ==
    /\ exporter \in Exporters
    /\ \E t \in Texts(MaxLen) :
          fs = Mount(DIST_DIR, <<"index.html">> :> FileNode(t))
                   @@ Mount(StagingDir(exporter), <<"index.html">> :> FileNode(t))
    /\ pc = "rewrite"
    /\ version = "1.0.0"
    /\ log = <<CopiedMsg(exporter)>>
    /\ exitCode = Running
    /\ fault = FALSE
    /\ before = EmptyFs

RewriteSpec == RewriteInit /\ [][FixIndexHtmlPaths]_vars

----------------------------------------------------------------------------
(* Properties *)

Range(s) == {s[i] : i \in DOMAIN s}

Staging == StagingDir(exporter)

DistIsDir(f) == existsSync(f, DIST_DIR) /\ f[DIST_DIR].kind = "dir"

\* the staging directory of f, with the directory itself
StagingOf(f) == Under(f, {Staging})

\* C1: when dist does not exist as the run starts, the run leaves the
\* staging directory as it found it (absent or present) in every step it
\* takes, and it ends, at the copy step, with a non-zero exit status.
C1_MissingDistExits ==
    /\ [][(pc \in {"load", "copy"} /\ ~existsSync(fs, DIST_DIR))
             => /\ StagingOf(fs') = StagingOf(fs)
                /\ pc' \in {"copy", "exited"}
                /\ (pc = "copy" => pc' = "exited")
                /\ (pc' = "exited" => exitCode' # 0)]_vars
    /\ []((pc = "exited" /\ ~existsSync(fs, DIST_DIR))
             => (exitCode # 0 /\ StagingOf(fs) = before))

\* a run without dist has ended at the copy step, over a staging directory
\* an earlier build had left
C1_Witness ==
    /\ pc = "exited"
    /\ ~existsSync(fs, DIST_DIR)
    /\ exitCode = 1
    /\ log = <<ErrNoDist>>
    /\ existsSync(fs, Append(Staging, "stale.txt"))

\* the sources of the icons handleIcons finds in f, by destination name
IconSources(f, e) ==
    {i \in 1..Len(IconSpecs(e)) : existsSync(f, Append(iconsDir, IconSpecs(e)[i].src))}

\* What a successful run makes of its inputs: dist's tree, the entry file
\* rewritten, the descriptor written over it, the icons copied over that.
ExpectedStaging(f, e, v) ==
    LET d == Subtree(f, DIST_DIR)
        icons == {<<IconSpecs(e)[i].dest>> : i \in IconSources(f, e)}
        srcOf(r) == CHOOSE i \in IconSources(f, e) : IconSpecs(e)[i].dest = r[1]
    IN  [r \in DOMAIN d \cup {<<DescriptorName(e)>>} \cup icons |->
            IF r \in icons THEN f[Append(iconsDir, IconSpecs(e)[srcOf(r)].src)]
            ELSE IF r = <<DescriptorName(e)>> THEN FileNode(DescriptorText(e, v))
            ELSE IF r = <<"index.html">> THEN FileNode(rewritePaths(d[r].data))
            ELSE d[r]]

\* C2: after a successful run the staging directory holds exactly what the
\* run's own inputs (dist, the assets, the version) produce, whatever it
\* held when the run started.
C2_StagingFromLastRun ==
    (pc = "exited" /\ exitCode = 0)
        => /\ existsSync(fs, Staging) /\ fs[Staging].kind = "dir"
           /\ Subtree(fs, Staging) = ExpectedStaging(fs, exporter, version)

\* a successful run over the staging directory of an earlier run, which held
\* entries this run does not produce
C2_Witness ==
    /\ pc = "exited" /\ exitCode = 0
    /\ \E q \in DOMAIN before :
          q # Staging /\ SubSeq(q, 2, Len(q)) \notin DOMAIN ExpectedStaging(fs, exporter, version)
    /\ existsSync(before, Append(Staging, DescriptorName(exporter)))

\* C3: when the copy step has returned, the staging directory holds every
\* file and subdirectory of dist at the same relative path with the same
\* content, and nothing else.
C3_CopyFidelity ==
    (pc = "rewrite")
        => /\ existsSync(fs, Staging) /\ fs[Staging].kind = "dir"
           /\ Subtree(fs, Staging) = Subtree(fs, DIST_DIR)

\* the copy of a dist with a file and an empty directory two levels down
C3_Witness ==
    /\ pc = "rewrite"
    /\ CopiedMsg(exporter) \in Range(log)
    /\ existsSync(fs, DIST_DIR \o <<"_expo", "static", "main.css">>)
    /\ existsSync(fs, Staging \o <<"_expo", "static", "main.css">>)
    /\ existsSync(fs, Staging \o <<"_expo", "static", "media">>)
    /\ before # EmptyFs

\* the step a printed line or a command belongs to: 1 copy, 2 rewrite,
\* 3 descriptor, 4 icons, 5 packaging, 6 report; 0 for an error message
StepOf(line) ==
    IF line \in {ErrPackageJson, ErrNoDist, ErrDuringExport(exporter)} THEN 0
    ELSE IF line = CopiedMsg(exporter) THEN 1
    ELSE IF line \in {FixedMsg, WarnNoIndex} THEN 2
    ELSE IF line = DescriptorMsg(exporter) THEN 3
    ELSE IF line \in {ProbeCmd(exporter), PackagingMsg(exporter), PackageCmd(exporter),
                      PackagedMsg(exporter), WarnNoCli(exporter)} THEN 5
    ELSE IF line = CompleteMsg(exporter) THEN 6
    ELSE 4

\* every earlier step has printed its line before step n prints anything
StepsBefore(n) ==
    \A i \in DOMAIN log :
        StepOf(log[i]) = n => \A k \in 1..(n - 1) : \E j \in 1..(i - 1) : StepOf(log[j]) = k

\* C4: the probe, the packaging command and the warning come only after
\* the copy, rewrite, descriptor and icon steps have printed their lines,
\* on a staging directory that is complete; and a packaging step that ends
\* with the warning (CLI absent, or exiting non-zero) leaves the staging
\* directory, descriptor included, as it was.
C4_PackagingLastAndHarmless ==
    /\ [](StepsBefore(5)
            /\ (pc = "package"
                  => Subtree(fs, Staging) = ExpectedStaging(fs, exporter, version)))
    /\ [][(pc = "package" /\ WarnNoCli(exporter) \in Range(log'))
             => (StagingOf(fs') = StagingOf(fs) /\ pc' = "report")]_vars

\* the packaging command has run and failed, and the descriptor is in place
C4_Witness ==
    /\ pc = "report"
    /\ PackageCmd(exporter) \in Range(log)
    /\ Last(log) = WarnNoCli(exporter)
    /\ existsSync(fs, Append(Staging, DescriptorName(exporter)))
    /\ fs[Append(Staging, DescriptorName(exporter))].data = DescriptorText(exporter, "2.3.1")

\* C5: a run that finds dist as a directory and meets no failing fs call
\* ends with exit status 0, whatever else it met (entry file absent, icon or
\* splash absent, CLI absent, CLI exiting non-zero).
C5_NonFatalExitZero ==
    (pc = "exited" /\ DistIsDir(fs) /\ ~fault) => exitCode = 0

\* a run that met all the non-fatal conditions at once and exited 0
C5_Witness ==
    /\ pc = "exited" /\ exitCode = 0 /\ ~fault
    /\ WarnNoIndex \in Range(log)
    /\ \A i \in 1..Len(IconSpecs(exporter)) : IconSpecs(exporter)[i].warn[2] \in Range(log)
    /\ PackageCmd(exporter) \in Range(log)
    /\ WarnNoCli(exporter) \in Range(log)

----------------------------------------------------------------------------
(* Properties of the rewrite.  The attributes of a text are read as a      *)
(* browser reads them, left to right: src= or href=, a double quote, the   *)
(* value up to the next double quote.                                      *)

RECURSIVE AttrStarts(_, _)

\* the positions from i on at which a double-quoted src or href attribute starts
AttrStarts(t, i) ==
    IF i > Len(t) THEN {}
    ELSE IF t[i] \in Attrs /\ i + 1 <= Len(t) /\ t[i + 1] = Q /\ FirstQuote(t, i + 2) > 0
         THEN {i} \cup AttrStarts(t, FirstQuote(t, i + 2) + 1)
         ELSE AttrStarts(t, i + 1)

ValueAt(t, i) == SubSeq(t, i + 2, FirstQuote(t, i + 2) - 1)

\* markup in which src=, href= and double quotes occur only as attr="value"
WellFormed(t) ==
    LET starts == AttrStarts(t, 1)
    IN  /\ \A j \in DOMAIN t : t[j] \in Attrs => j \in starts
        /\ \A j \in DOMAIN t :
              t[j] = Q => \E i \in starts : j = i + 1 \/ j = FirstQuote(t, i + 2)

RECURSIVE Ascending(_)

Ascending(S) ==
    IF S = {} THEN <<>>
    ELSE LET m == CHOOSE x \in S : \A y \in S : x <= y
         IN  <<m>> \o Ascending(S \ {m})

\* the attributes of t in order, each with its value
AttrValues(t) ==
    LET starts == Ascending(AttrStarts(t, 1))
    IN  [n \in DOMAIN starts |-> [attr |-> t[starts[n]], value |-> ValueAt(t, starts[n])]]

\* the positions of the slashes that lead an attribute value of t
LeadingSlashes(t) == {i + 2 : i \in {x \in AttrStarts(t, 1) : ValueAt(t, x) # <<>> /\ t[x + 2] = "/"}}

\* t without the tokens at the positions D
Without(t, D) ==
    LET kept == Ascending(DOMAIN t \ D)
    IN  [n \in DOMAIN kept |-> t[kept[n]]]

EntryPath == Append(Staging, "index.html")

\* the text the rewrite was given, and the text it wrote
Given == fs[Append(DIST_DIR, "index.html")].data

Written == fs[EntryPath].data

Rewritten == pc = "descriptor" /\ FixedMsg \in Range(log)

\* C6: in the rewritten entry file every double-quoted src or href value
\* that began with a slash ("/_expo/..." or any other) is that value without
\* its leading slash.
C6_EverySlashStripped ==
    (Rewritten /\ WellFormed(Given))
        => /\ Len(AttrValues(Written)) = Len(AttrValues(Given))
           /\ \A n \in DOMAIN AttrValues(Given) :
                 LET v == AttrValues(Given)[n].value
                 IN  (v # <<>> /\ v[1] = "/")
                        => AttrValues(Written)[n] = [attr |-> AttrValues(Given)[n].attr,
                                                     value |-> Tail(v)]

\* C7: the rewrite changes nothing but the leading slash of values that
\* begin with a single slash: a value that begins with two slashes is
\* written as it was given, and so is all other text.
C7_OnlySingleSlashChanged ==
    (Rewritten /\ WellFormed(Given))
        => /\ Len(AttrValues(Written)) = Len(AttrValues(Given))
           /\ \A n \in DOMAIN AttrValues(Given) :
                 LET v == AttrValues(Given)[n].value
                 IN  (Len(v) >= 2 /\ v[1] = "/" /\ v[2] = "/") => AttrValues(Written)[n].value = v
           /\ \E D \in SUBSET {j \in LeadingSlashes(Given) :
                                  ~(j + 1 <= Len(Given) /\ Given[j + 1] = "/")} :
                 Written = Without(Given, D)

----------------------------------------------------------------------------
(* Properties of the runs, continued *)

Icon512 == Append(iconsDir, "icon-512.png")

IconWarning512 == IconSpecs("tizen")[1].warn

\* a Samsung run that found dist as a directory, met no failing fs call and
\* found no assets/images/icon-512.png has ended
SamsungRunWithoutIcon ==
    /\ exporter = "tizen" /\ pc = "exited"
    /\ DistIsDir(fs) /\ ~fault
    /\ ~existsSync(fs, Icon512)

\* C8 as stated: such a run exits 0, prints the warning that names
\* assets/images/icon-512.png, and leaves no icon.png in the staging
\* directory, whatever dist holds.
C8_NoIconFile ==
    SamsungRunWithoutIcon
        => /\ exitCode = 0
           /\ IconWarning512[2] \in Range(log)
           /\ ~existsSync(fs, Append(TIZEN_DIR, "icon.png"))

\* C8, amended: such a run exits 0 and prints the warning that names
\* assets/images/icon-512.png, and the staging directory holds an icon.png
\* only when dist has one at its top, and then dist's.
C8_NoIconUnlessDistHasOne ==
    SamsungRunWithoutIcon
        => /\ exitCode = 0
           /\ IconWarning512[1] \in Range(log) /\ IconWarning512[2] \in Range(log)
           /\ existsSync(fs, Append(TIZEN_DIR, "icon.png"))
                  <=> existsSync(fs, Append(DIST_DIR, "icon.png"))
           /\ existsSync(fs, Append(TIZEN_DIR, "icon.png"))
                  => fs[Append(TIZEN_DIR, "icon.png")] = fs[Append(DIST_DIR, "icon.png")]

\* such a run over a dist with a favicon named icon.png: the staging
\* directory has it, copied from dist
C8_Witness ==
    /\ SamsungRunWithoutIcon
    /\ exitCode = 0
    /\ IconWarning512[2] \in Range(log)
    /\ existsSync(fs, Append(TIZEN_DIR, "icon.png"))
    /\ fs[Append(TIZEN_DIR, "icon.png")] = fs[Append(DIST_DIR, "icon.png")]

\* the lines of the log, by step, never go back to an earlier step
InProgramOrder ==
    \A i, j \in DOMAIN log :
        (i < j /\ StepOf(log[i]) # 0 /\ StepOf(log[j]) # 0) => StepOf(log[i]) <= StepOf(log[j])

\* C9: the steps print in the order copy, rewrite, descriptor, icons,
\* packaging, report, none before all the earlier ones; and once an fs call
\* has failed the run has ended with a non-zero status, the error message
\* is the last thing printed (no command is run, no report printed after
\* it) and nothing is written to the file system any more.
C9_OrderAndAbort ==
    /\ [](/\ InProgramOrder
          /\ \A n \in 2..6 : StepsBefore(n)
          /\ \A i \in DOMAIN log : StepOf(log[i]) = 0 => i = Len(log)
          /\ fault => /\ pc = "exited" /\ exitCode # 0
                      /\ log # <<>> /\ StepOf(Last(log)) = 0
          /\ (pc = "exited" /\ exitCode # 0)
                => /\ CompleteMsg(exporter) \notin Range(log)
                   /\ ProbeCmd(exporter) \notin Range(log))
    /\ [][fault => fs' = fs]_vars

\* the copy of the second icon failed: the first is in place, the run has
\* ended with status 1 and neither packaging nor the report has run
C9_Witness ==
    /\ exporter = "webos" /\ pc = "exited" /\ fault /\ exitCode = 1
    /\ Len(log) >= 5 /\ StepOf(log[Len(log) - 1]) = 4
    /\ existsSync(fs, Append(WEBOS_DIR, "icon-80.png"))
    /\ existsSync(fs, Append(iconsDir, "icon-130.png"))
    /\ ~existsSync(fs, Append(WEBOS_DIR, "icon-130.png"))

\* The process is never suspended: a step that can be taken is taken.
FairSpec == Spec /\ WF_vars(Step)

\* C10: a run that reaches the packaging step goes on to print the report
\* and end with status 0, whatever the packaging step met.
C10_ReportFollowsPackaging ==
    (pc = "package")
        ~> (pc = "exited" /\ exitCode = 0 /\ Last(log) = CompleteMsg(exporter))

\* the report printed after a packaging command that failed
C10_Witness ==
    /\ pc = "exited"
    /\ Last(log) = CompleteMsg(exporter)
    /\ PackageCmd(exporter) \in Range(log)
    /\ WarnNoCli(exporter) \in Range(log)

----------------------------------------------------------------------------
(* The LG exporter's three optional assets *)

AppInfoPath == Append(WEBOS_DIR, "appinfo.json")

\* the paths handleIcons of the LG exporter may write
WebosIconPaths == {Append(WEBOS_DIR, IconSpecs("webos")[i].dest) : i \in 1..3}

\* C11: when the LG exporter's icon step runs and no copy is made to fail,
\* then for each of the three assets by itself: if its source is there it is
\* copied into the staging directory under the name appinfo.json gives it
\* and the copy is reported; if not, its own two-line warning is printed and
\* the staging directory is left as it was at that name.  Whatever the other
\* two sources are, the step goes on to packaging and writes nothing else.
C11_AssetsIndependent ==
    [][(exporter = "webos" /\ pc = "icons" /\ ~fault')
          => /\ pc' = "package"
             /\ \A i \in 1..3 :
                   LET icon == IconSpecs("webos")[i]
                       src == Append(iconsDir, icon.src)
                       dest == Append(WEBOS_DIR, icon.dest)
                   IN  /\ icon.dest \in Range(fs[AppInfoPath].data)
                       /\ IF existsSync(fs, src)
                          THEN /\ existsSync(fs', dest) /\ fs'[dest] = fs[src]
                               /\ icon.copied \in Range(log')
                               /\ icon.warn[1] \notin Range(log')
                               /\ icon.warn[2] \notin Range(log')
                          ELSE /\ icon.warn[1] \in Range(log')
                               /\ icon.warn[2] \in Range(log')
                               /\ icon.copied \notin Range(log')
                               /\ existsSync(fs', dest) <=> existsSync(fs, dest)
                               /\ existsSync(fs, dest) => fs'[dest] = fs[dest]
             /\ \A q \in (DOMAIN fs \cup DOMAIN fs') \ WebosIconPaths :
                   q \in DOMAIN fs /\ q \in DOMAIN fs' /\ fs'[q] = fs[q]]_vars

\* the icon step has run without the small icon: it warned about it, and
\* went on to copy the large icon and the splash image
C11_Witness ==
    /\ exporter = "webos" /\ pc = "package"
    /\ ~existsSync(fs, Append(iconsDir, "icon-80.png"))
    /\ ~existsSync(fs, Append(WEBOS_DIR, "icon-80.png"))
    /\ IconSpecs("webos")[1].warn[2] \in Range(log)
    /\ existsSync(fs, Append(WEBOS_DIR, "icon-130.png"))
    /\ fs[Append(WEBOS_DIR, "icon-130.png")] = fs[Append(iconsDir, "icon-130.png")]
    /\ existsSync(fs, Append(WEBOS_DIR, "splash.png"))
    /\ fs[Append(WEBOS_DIR, "splash.png")] = fs[Append(iconsDir, "splash-1920x1080.png")]
    /\ "Copied splash image" \in Range(log)

----------------------------------------------------------------------------
(* The two stages of the rewrite against the second stage alone *)

\* the number of double quotes among the first n tokens of t
QuotesUpTo(t, n) == Cardinality({j \in 1..n : t[j] = Q})

\* the double quotes of t pair up, first with second, third with fourth,
\* ..., and wherever src=" or href=" occurs, its quote opens a pair
QuotesPaired(t) ==
    /\ QuotesUpTo(t, Len(t)) % 2 = 0
    /\ \A i \in 1..(Len(t) - 1) :
          (t[i] \in Attrs /\ t[i + 1] = Q) => QuotesUpTo(t, i) % 2 = 0

\* C12 as stated: whatever the entry file holds, the rewrite (the "/_expo/"
\* passes, then the generic passes) writes what the generic passes alone
\* make of the text it was given.
C12_TwoStageRedundant ==
    Rewritten => Written = slashPass(Given)

\* C12, amended: for an entry file whose double quotes pair up and in which
\* src=" and href=" occur only with an opening quote, the rewrite writes what
\* the generic passes alone make of the text it was given.
C12_RedundantWhenQuotesPaired ==
    (Rewritten /\ QuotesPaired(Given)) => Written = slashPass(Given)

\* the rewrite of src="/_expo/a": the "/_expo/" pass has taken the slash
\* the generic pass would have taken
C12_Witness ==
    /\ Rewritten /\ QuotesPaired(Given)
    /\ Given = <<"src=", Q, "/", "_expo/", "a", Q>>
    /\ expoPass(Given) # Given
    /\ Written = <<"src=", Q, "_expo/", "a", Q>>
    /\ Written = slashPass(Given)

----------------------------------------------------------------------------
(* What a run writes *)

\* the upstream output directory and the source assets directory
InputDirs == {DIST_DIR, <<"assets">>}

\* the paths at which f and g differ: there in one only, or not the same node
Changed(f, g) ==
    {q \in DOMAIN f \cup DOMAIN g : ~(q \in DOMAIN f /\ q \in DOMAIN g /\ f[q] = g[q])}

\* C13: from its start to its end a run, of either exporter and however it
\* ends, leaves dist and assets as they are, entry by entry: every path a
\* step creates, deletes or changes is the exporter's own staging directory
\* or lies under it.
C13_InputsOnlyRead ==
    [][(pc # "idle")
          => /\ Under(fs', InputDirs) = Under(fs, InputDirs)
             /\ \A q \in Changed(fs, fs') : IsPrefix(Staging, q)]_vars

\* a run has ended with status 0 having copied dist, rewritten the entry
\* file and copied an asset over a staging directory of an earlier build:
\* dist's entry file is as the web export wrote it and the asset is there
C13_Witness ==
    /\ pc = "exited" /\ exitCode = 0
    /\ existsSync(before, Append(Staging, "stale.txt"))
    /\ ~existsSync(fs, Append(Staging, "stale.txt"))
    /\ existsSync(fs, Append(DIST_DIR, "index.html"))
    /\ existsSync(fs, EntryPath)
    /\ fs[Append(DIST_DIR, "index.html")].data = IndexHtml
    /\ fs[EntryPath].data = rewritePaths(IndexHtml)
    /\ fs[EntryPath].data # IndexHtml
    /\ existsSync(fs, Staging \o <<"_expo", "static", "main.css">>)
    /\ existsSync(fs, Append(Staging, DescriptorName(exporter)))
    /\ existsSync(fs, Append(iconsDir, IconSpecs(exporter)[1].src))
    /\ existsSync(fs, Append(Staging, IconSpecs(exporter)[1].dest))
    /\ fs[Append(Staging, IconSpecs(exporter)[1].dest)]
           = fs[Append(iconsDir, IconSpecs(exporter)[1].src)]

====
